---- MODULE Spec2Model ----
(***************************************************************************)
(* Model of the RPA Challenge orchestration of navAIgator:                 *)
(*   src/src/agent/rpa_challenge/rpa_challenge_agent.py  (the runner)      *)
(*   src/src/webui/components/rpa_challenge_tab.py       (its callers)     *)
(*                                                                         *)
(* One step of the model is what one asyncio coroutine executes between    *)
(* two suspension points (await of an agent run, of a sleep, of a browser  *)
(* close).  The downloads directory is written by the browser process too, *)
(* which runs concurrently with every coroutine.                           *)
(***************************************************************************)
EXTENDS Integers, Sequences, FiniteSets, TLC

(* ---------------------------- bounds ----------------------------------- *)
\* Largest file size (in abstract size units) the model distinguishes.
MaxSize == 2
\* Largest number of rows a spreadsheet of the model holds.
MaxRows == 1
\* Number of stop/clear button handlers that may run during one run.
MaxHandlers == 1
\* Number of runs one process makes one after the other.
MaxRuns == 3

(* ------------------------ program constants ---------------------------- *)
\* for attempt in range(5)
PollAttempts == 5
\* lightweight page-confirmation agent: run(max_steps=5), timeout=60
LightSteps == 5
LightTimeout == 60
\* agent-driven fetch agent: run(max_steps=25), timeout=300
FetchSteps == 25
FetchTimeout == 300
\* submission agent: run(max_steps=100), timeout=600
ProcessSteps == 100
ProcessTimeout == 600

(* ------------------------- downloads directory ------------------------- *)
\* "direct" is downloads/challenge_direct.xlsx, "dl" is the file the browser
\* saves when the fetch agent clicks "Download Excel" (challenge.xlsx).
\* "dl2" is a further file the browser saves under save_downloads_path when
\* the download is triggered again while "dl" exists (it is only followed in
\* DownloadsSpec).  All names match the glob pattern *challenge*.xlsx.
DIRECT == "direct"
Names == {"direct", "dl", "dl2"}
NoFile == [size |-> -1, ok |-> FALSE, rows |-> 0]
\* Python's None as a path, and as a parse result (row counts are >= 0).
None == "None"
NoData == -1

\* A file: its byte size, whether pd.read_excel accepts it, and its row count.
FileStates ==
  { f \in [size : 0..MaxSize, ok : BOOLEAN, rows : 0..MaxRows] :
      /\ (f.ok => f.size > 0)
      /\ (~f.ok => f.rows = 0) }

Exists(fs, n) == fs[n] # NoFile

\* pd.read_excel(path): raises on a missing, empty or malformed file.
ReadExcelOk(fs, n) == Exists(fs, n) /\ fs[n].ok

\* Position of name n in the creation order (later = newer), 0 if absent.
CTime(order, n) ==
  IF \E i \in 1..Len(order) : order[i] = n
  THEN CHOOSE i \in 1..Len(order) : order[i] = n
  ELSE 0

\* order after path n was (re)written now.
Touch(order, n) == SelectSeq(order, LAMBDA x : x # n) \o <<n>>

\* order after the names in gone were removed.
Forget(order, gone) == SelectSeq(order, LAMBDA x : x \notin gone)

(* find_latest_challenge_file, first part: the direct file.                *)
DirectHit(fs) ==
  /\ Exists(fs, DIRECT)
  /\ fs[DIRECT].size > 0
  /\ ReadExcelOk(fs, DIRECT)

\* The direct file is removed when it exists, is non-empty and fails to parse.
DirectPruned(fs) ==
  IF Exists(fs, DIRECT) /\ fs[DIRECT].size > 0 /\ ~ReadExcelOk(fs, DIRECT)
  THEN {DIRECT} ELSE {}

\* Files the glob loop removes: non-empty and unparsable (getsize > 0 is
\* tested before read_excel, so a zero-byte file is only logged).
GlobPruned(fs) ==
  { n \in Names \ DirectPruned(fs) :
      Exists(fs, n) /\ fs[n].size > 0 /\ ~ReadExcelOk(fs, n) }

valid_files(fs) ==
  { n \in Names \ DirectPruned(fs) :
      Exists(fs, n) /\ fs[n].size > 0 /\ ReadExcelOk(fs, n) }

\* max(valid_files, key=os.path.getctime)
latest_file(fs, order) ==
  CHOOSE n \in valid_files(fs) :
    \A m \in valid_files(fs) : CTime(order, m) <= CTime(order, n)

\* The value find_latest_challenge_file returns.
find_latest_challenge_file(fs, order) ==
  IF DirectHit(fs) THEN DIRECT
  ELSE IF valid_files(fs) = {} THEN None
  ELSE latest_file(fs, order)

\* The names find_latest_challenge_file deletes.
LocatorPruned(fs) ==
  IF DirectHit(fs) THEN {} ELSE DirectPruned(fs) \cup GlobPruned(fs)

\* The directory find_latest_challenge_file leaves behind.
FsAfterLocate(fs) ==
  [n \in Names |-> IF n \in LocatorPruned(fs) THEN NoFile ELSE fs[n]]

(* read_excel_data under functools.lru_cache(maxsize=1).                   *)
\* The cache is empty or holds one entry [path, data]; data is the row count
\* of the parsed file, or NoData when the parse failed (the None that
\* read_excel_data returns is cached like any other result).
NoCache == [path |-> None, data |-> NoData]

ParseData(fs, n) == IF ReadExcelOk(fs, n) THEN fs[n].rows ELSE NoData

\* Variant: read_excel_data without the lru_cache decorator.
CacheHitNever(cache, n) == FALSE

CacheHit(cache, n) == cache.path = n

read_excel_data(cache, fs, n) ==
  IF CacheHit(cache, n) THEN cache.data ELSE ParseData(fs, n)

\* Variant: an entry, once stored, is never evicted.
CacheAfterReadNoEvict(cache, fs, n) ==
  IF cache.path = None THEN [path |-> n, data |-> ParseData(fs, n)] ELSE cache

\* lru_cache(maxsize=1): a miss replaces the single entry.
CacheAfterRead(cache, fs, n) ==
  IF CacheHit(cache, n) THEN cache ELSE [path |-> n, data |-> ParseData(fs, n)]

\* Variant: the test "if excel_data is None", which lets an empty list pass.
FalsyNoneOnly(data) == data = NoData

\* "if not excel_data": None and the empty list are both falsy.
Falsy(data) == data = NoData \/ data = 0

(* ------------------------------- state --------------------------------- *)
VARIABLES
  uiPc,              \* position of run_rpa_challenge
  managerRunner,     \* webui_manager.rpa_challenge_runner is set
  managerTask,       \* webui_manager.rpa_challenge_task is set
  lastYield,         \* the latest interface update run_rpa_challenge yielded
  browser,           \* runner.browser is not None
  context,           \* runner.context is not None
  pc,                \* position of the run_automation task
  cancelReq,         \* task.cancel() was called and not yet delivered
  result,            \* what run_automation hands to its caller
  download_history,  \* run_automation local
  process_history,   \* run_automation local
  excel_file,        \* run_automation local (poll loop)
  file_size,         \* run_automation local (poll loop)
  attempt,           \* run_automation local (poll loop index)
  excel_data,        \* run_automation local
  fs,                \* the downloads directory
  order,             \* its files, oldest creation time first
  cache,             \* the lru_cache of read_excel_data
  calls,             \* per agent, the agent.run invocations made so far
  hpc,               \* position of each button handler
  hkind,             \* which handler it is: handle_stop or handle_clear
  ctxCloseCalls,     \* number of context.close() invocations
  brCloseCalls,      \* number of browser.close() invocations
  cbMode,            \* the on_done_callback argument of run_automation
  obs                \* history of the run, recorded for the properties

uiVars == <<uiPc, managerRunner, managerTask, lastYield>>
resVars == <<browser, context, ctxCloseCalls, brCloseCalls>>
\* Locals of run_automation that only the try block reads.
scratch == <<excel_file, file_size, attempt, excel_data>>
localVars == <<download_history, process_history, excel_file, file_size,
               attempt, excel_data>>
dirVars == <<fs, order, cache>>
handlerVars == <<hpc, hkind>>
vars == <<uiPc, managerRunner, managerTask, lastYield, browser, context, pc,
          cancelReq,
          result, download_history, process_history, excel_file, file_size,
          attempt, excel_data, fs, order, cache, calls, hpc, hkind,
          ctxCloseCalls, brCloseCalls, cbMode, obs>>

Agents == {"light", "fetch", "process"}
Handlers == 1..MaxHandlers

\* max_steps and timeout of each agent.run invocation.
StepBudget(a) ==
  IF a = "light" THEN LightSteps
  ELSE IF a = "fetch" THEN FetchSteps ELSE ProcessSteps

TimeBudget(a) ==
  IF a = "light" THEN LightTimeout
  ELSE IF a = "fetch" THEN FetchTimeout ELSE ProcessTimeout

\* asyncio.wait_for(agent.run(max_steps=..), timeout=..) is entered.
Invoke(c, a) ==
  [c EXCEPT ![a] = Append(@, [steps |-> StepBudget(a),
                              budget |-> TimeBudget(a),
                              out |-> "running"])]

\* The invocation in flight ends with outcome o.  On a timeout or on a
\* cancellation wait_for cancels the inner agent.run and waits for it, so
\* the agent is no longer running when wait_for raises.
Finish(c, a, o) == [c EXCEPT ![a][Len(c[a])].out = o]

Running(c) == { a \in Agents : Len(c[a]) > 0 /\ c[a][Len(c[a])].out = "running" }

\* AgentHistoryList as far as the runner looks at it: who produced it, in
\* which invocation, and is_done().
NoHistory == [agent |-> None, inv |-> 0, done |-> FALSE]
History(a, i, d) == [agent |-> a, inv |-> i, done |-> d]

(* Exceptions that reach "except Exception" of run_automation, and str(e).  *)
ExcKinds == {"ctx_not_init", "fetch_not_done", "no_artifact", "no_file",
             "no_data", "process_not_done", "timeout", "agent_error",
             "callback_error"}

\* str(e): asyncio.wait_for raises TimeoutError() without arguments, whose
\* str is the empty string; the other exceptions carry their message.
StrOf(exc) ==
  CASE exc = "ctx_not_init" -> "Browser context nao inicializado"
    [] exc = "fetch_not_done" -> "Falha ao baixar o arquivo Excel: errors"
    [] exc = "no_artifact" -> "Nao foi possivel encontrar o arquivo Excel apos varias tentativas"
    [] exc = "no_file" -> "Nao foi possivel encontrar o arquivo Excel baixado"
    [] exc = "no_data" -> "Nao foi possivel ler os dados do arquivo Excel"
    [] exc = "process_not_done" -> "Falha ao processar os dados do formulario: errors"
    [] exc = "timeout" -> ""
    [] exc = "agent_error" -> "agent error"
    [] OTHER -> "callback error"

Absent == "<absent>"
NoResult == [kind |-> "none", success |-> FALSE, error |-> Absent, exc |-> "none"]
Record(ok, err) == [kind |-> "record", success |-> ok, error |-> err, exc |-> "none"]
Raised(exc) == [kind |-> "raised", success |-> FALSE, error |-> Absent, exc |-> exc]
Cancelled == [kind |-> "cancelled", success |-> FALSE, error |-> Absent, exc |-> "none"]

NoObs ==
  [direct |-> "none", exc |-> "none", stable |-> FALSE,
   summaryWrites |-> 0, cbCalls |-> 0, stopAt |-> "none", taskCloses |-> 0,
   started |-> FALSE, created |-> <<>>, accepted |-> None, parsed |-> None,
   firstTwo |-> "none", stepCalls |-> 0]

\* The interface updates of run_rpa_challenge as far as the buttons and the
\* kind of status text go.  The first one locks the run button and unlocks
\* the stop button; the updates in between only change the status and the
\* log; the last one of every way out is Update(status).
FirstUpdate == [run_button |-> FALSE, stop_button |-> TRUE, status |-> "running"]
Update(status) == [run_button |-> TRUE, stop_button |-> FALSE, status |-> status]

(* ------------------------------- Init ---------------------------------- *)
\* The run starts with an empty downloads directory and an empty cache; cb is
\* what run_automation will be handed as callbacks.
InitWith(cb) ==
  /\ uiPc = "start"
  /\ managerRunner = FALSE
  /\ managerTask = FALSE
  /\ lastYield = FirstUpdate
  /\ browser = FALSE
  /\ context = FALSE
  /\ pc = "none"
  /\ cancelReq = FALSE
  /\ result = NoResult
  /\ download_history = NoHistory
  /\ process_history = NoHistory
  /\ excel_file = None
  /\ file_size = 0
  /\ attempt = 0
  /\ excel_data = NoData
  /\ fs = [n \in Names |-> NoFile]
  /\ order = <<>>
  /\ cache = NoCache
  /\ calls = [a \in Agents |-> <<>>]
  /\ hpc = [h \in Handlers |-> "idle"]
  /\ hkind = [h \in Handlers |-> "none"]
  /\ ctxCloseCalls = 0
  /\ brCloseCalls = 0
  /\ cbMode = cb
  /\ obs = NoObs

\* run_rpa_challenge calls runner.run_automation(llm): no callbacks.
Init == InitWith("none")

(* -------------------- run_automation: shared pieces -------------------- *)
\* The task moves to position p without leaving the try block.
Goto(p, o) ==
  /\ pc' = p
  /\ obs' = o
  /\ UNCHANGED <<result, browser, context, ctxCloseCalls, brCloseCalls,
                 cbMode>>

\* "finally: await self.close_resources()" with res the pending outcome of
\* run_automation.  close_resources runs up to its first await.  The locals
\* of the try block are not read again and are dropped here; the histories
\* live on in the record.  The downloads directory is followed for as long as
\* the run can read it: nothing after the try block calls the locator, so fs
\* and order stop describing the directory here (the files stay on disk; the
\* lru_cache entry is kept, it outlives the run).
Finally(res, o) ==
  /\ result' = res
  /\ excel_file' = None
  /\ file_size' = 0
  /\ attempt' = 0
  /\ excel_data' = NoData
  /\ fs' = [n \in Names |-> NoFile]
  /\ order' = <<>>
  /\ obs' = [o EXCEPT !.taskCloses = @ + 1]
  /\ pc' = IF context THEN "fin_ctx" ELSE IF browser THEN "fin_br" ELSE "terminated"
  /\ ctxCloseCalls' = IF context THEN ctxCloseCalls + 1 ELSE ctxCloseCalls
  /\ brCloseCalls' = IF ~context /\ browser THEN brCloseCalls + 1 ELSE brCloseCalls
  /\ UNCHANGED <<browser, context>>

\* "except Exception as e": the summary is written, the done callback is
\* called, the failure record is returned.  A callback that raises leaves the
\* handler with its own exception.
\* Variant: the handler ends with "raise" instead of returning the record.
HandlerResultReraises(exc, cb) == Raised(exc)

HandlerResult(exc, cb) ==
  IF cb = "raises" THEN Raised("callback_error") ELSE Record(FALSE, StrOf(exc))

HandlerObs(o, exc, cb) ==
  [o EXCEPT !.exc = IF @ = "none" THEN exc ELSE @,
            !.summaryWrites = @ + 1,
            !.cbCalls = IF cb = "none" THEN @ ELSE @ + 1]

\* cb is the done callback argument: "none" (absent, as run_rpa_challenge
\* calls run_automation), "ok" (a callable that returns), "raises" (one that
\* raises) or "raises_on_success" (one that raises when handed the success
\* record and returns when handed a failure record, such as a callback that
\* reads results["error"]).
Fail(exc, o) ==
  /\ Finally(HandlerResult(exc, cbMode), HandlerObs(o, exc, cbMode))
  /\ UNCHANGED cbMode

\* The end of the try block after a done submission: summary, done callback,
\* success record.  A raising callback lands in "except Exception".
\* Variant: the success record carries an "error" key as well.
SuccessResultCarriesError(cb) ==
  IF cb \in {"raises", "raises_on_success"}
  THEN HandlerResult("callback_error", cb)
  ELSE Record(TRUE, "")

SuccessResult(cb) ==
  IF cb \in {"raises", "raises_on_success"}
  THEN HandlerResult("callback_error", cb)
  ELSE Record(TRUE, Absent)

SuccessObs(o, cb) ==
  LET o1 == [o EXCEPT !.summaryWrites = @ + 1,
                      !.cbCalls = IF cb = "none" THEN @ ELSE @ + 1]
  IN IF cb \in {"raises", "raises_on_success"}
     THEN HandlerObs(o1, "callback_error", cb)
     ELSE o1

Succeed(o) ==
  /\ Finally(SuccessResult(cbMode), SuccessObs(o, cbMode))
  /\ UNCHANGED cbMode

(* ----------------------- run_rpa_challenge ----------------------------- *)
\* Provider or model name is missing (the error update, then return), or
\* get_llm_model raises (the update of "except Exception").
ui_llm_not_configured ==
  /\ uiPc = "start"
  /\ uiPc' = "done"
  /\ lastYield' = Update("error")
  /\ UNCHANGED <<managerRunner, managerTask, browser, context, pc, cancelReq,
                 result, localVars, dirVars, calls, handlerVars,
                 ctxCloseCalls, brCloseCalls, cbMode, obs>>

\* runner = RPAChallengeRunner(..); initialize_browser up to new_context.
\* When it returns False, run_rpa_challenge raises and "except Exception"
\* yields the error update.
ui_initialize_browser ==
  /\ uiPc = "start"
  /\ managerRunner' = TRUE
  /\ \/ browser' = TRUE /\ uiPc' = "init" /\ UNCHANGED lastYield
     \/ /\ browser' = browser                    \* CustomBrowser(..) raised
        /\ uiPc' = "done"
        /\ lastYield' = Update("error")
  /\ UNCHANGED <<managerTask, context, pc, cancelReq, result, localVars,
                 dirVars, calls, handlerVars, ctxCloseCalls, brCloseCalls,
                 cbMode, obs>>

\* new_context returns or raises; on success the task is created and awaited.
ui_create_task ==
  /\ uiPc = "init"
  /\ \/ /\ context' = TRUE
        /\ pc' = "created"
        /\ managerTask' = TRUE
        /\ uiPc' = "await"
        /\ UNCHANGED lastYield
     \/ /\ uiPc' = "done"                          \* new_context raised
        /\ lastYield' = Update("error")
        /\ UNCHANGED <<context, pc, managerTask>>
  /\ UNCHANGED <<managerRunner, browser, cancelReq, result, localVars,
                 dirVars, calls, handlerVars, ctxCloseCalls, brCloseCalls,
                 cbMode, obs>>

\* The status of the update that ends run_rpa_challenge after "await task":
\* on_done_callback(results) for a record, "except asyncio.CancelledError"
\* for a cancelled task, "except Exception" for anything else.
StatusAfter(res) ==
  IF res.kind = "record" THEN (IF res.success THEN "success" ELSE "error")
  ELSE IF res.kind = "cancelled" THEN "cancelled"
  ELSE "error"

\* Variant: there is no "except asyncio.CancelledError" clause; the
\* CancelledError leaves run_rpa_challenge and nothing more is yielded.
ui_resume_lets_cancel_through ==
  /\ uiPc = "await"
  /\ pc = "terminated"
  /\ uiPc' = "done"
  /\ managerTask' = IF result.kind = "record" THEN FALSE ELSE managerTask
  /\ lastYield' = IF result.kind = "cancelled" THEN lastYield
                  ELSE Update(StatusAfter(result))
  /\ UNCHANGED <<managerRunner, browser, context, pc, cancelReq, result,
                 localVars, dirVars, calls, handlerVars, ctxCloseCalls,
                 brCloseCalls, cbMode, obs>>

\* "results = await task" resumes with a record, CancelledError or exception.
ui_resume ==
  /\ uiPc = "await"
  /\ pc = "terminated"
  /\ uiPc' = "done"
  /\ managerTask' = IF result.kind = "record" THEN FALSE ELSE managerTask
  /\ lastYield' = Update(StatusAfter(result))
  /\ UNCHANGED <<managerRunner, browser, context, pc, cancelReq, result,
                 localVars, dirVars, calls, handlerVars, ctxCloseCalls,
                 brCloseCalls, cbMode, obs>>

(* ------------------------ run_download_agent --------------------------- *)
\* What the direct fetch did, classified by the checks the code makes.
DirectOutcome(w) ==
  IF w = NoFile THEN "neterr"                    \* urlopen raised, no write
  ELSE IF ~(w.size > 0) THEN "empty"             \* getsize(..) > 0 is false
  ELSE IF ~w.ok THEN "unparsable"                \* pd.read_excel raised
  ELSE IF ~(w.rows > 0) THEN "zerorows"          \* len(test_df) > 0 is false
  ELSE "valid"

\* What the direct fetch may write: the response body, whose size beyond
\* empty / non-empty plays no role (the file is written in one piece).
DirectBodies == { f \in FileStates : f.size <= 1 }

\* Variant: "len(test_df) >= 0", which takes an empty sheet for a valid one.
AgentAfterDirectAcceptsEmpty(outcome) ==
  IF outcome \in {"valid", "zerorows"} THEN "light" ELSE "fetch"

\* The agent run_download_agent constructs after the direct fetch.
AgentAfterDirect(outcome) == IF outcome = "valid" THEN "light" ELSE "fetch"

\* First step of the task: context check, direct fetch, first agent.run.
run_download_agent ==
  /\ pc = "created"
  /\ ~cancelReq
  /\ LET o1 == [obs EXCEPT !.started = TRUE] IN
     IF ~context
     THEN /\ Fail("ctx_not_init", o1)
          /\ UNCHANGED calls
     ELSE \E w \in DirectBodies \cup {NoFile} :
            LET outcome == DirectOutcome(w)
                a == AgentAfterDirect(outcome)
            IN /\ fs' = IF w = NoFile THEN fs ELSE [fs EXCEPT ![DIRECT] = w]
               /\ order' = IF w = NoFile THEN order ELSE Touch(order, DIRECT)
               /\ calls' = Invoke(calls, a)
               /\ Goto(IF a = "light" THEN "light" ELSE "fetch1",
                       [o1 EXCEPT !.direct = outcome, !.created = Append(@, a)])
               /\ UNCHANGED scratch
  /\ UNCHANGED <<uiVars, cancelReq, download_history, process_history, cache,
                 handlerVars>>

\* Variant: the history is not tested with is_done().
light_agent_returns_unchecked ==
  /\ pc = "light"
  /\ ~cancelReq
  /\ \E d \in BOOLEAN :
       /\ download_history' = History("light", Len(calls["light"]), d)
       /\ calls' = Finish(calls, "light", IF d THEN "done" ELSE "notdone")
       /\ Goto("sleep10", obs) /\ UNCHANGED <<scratch, fs, order>>
  /\ UNCHANGED <<uiVars, cancelReq, process_history, cache, handlerVars>>

\* The lightweight agent's run returns a history.
light_agent_returns ==
  /\ pc = "light"
  /\ ~cancelReq
  /\ \E d \in BOOLEAN :
       /\ download_history' = History("light", Len(calls["light"]), d)
       /\ calls' = Finish(calls, "light", IF d THEN "done" ELSE "notdone")
       /\ IF d THEN Goto("sleep10", obs) /\ UNCHANGED <<scratch, fs, order>>
          ELSE Fail("fetch_not_done", obs)
  /\ UNCHANGED <<uiVars, cancelReq, process_history, cache, handlerVars>>

\* The lightweight agent's run raises or exceeds 60 seconds: the exception is
\* caught by "except Exception as excel_err" and the code falls through to the
\* agent-driven fetch.
light_agent_faults ==
  /\ pc = "light"
  /\ ~cancelReq
  /\ \E o \in {"exc", "timeout"} :
       calls' = Invoke(Finish(calls, "light", o), "fetch")
  /\ Goto("fetch1", [obs EXCEPT !.created = Append(@, "fetch")])
  /\ UNCHANGED <<uiVars, cancelReq, localVars, dirVars, handlerVars>>

\* Variant: the history of a re-invocation is thrown away and the phase is
\* failed with the timeout.
AgentReturnsDropsRetry(a, p1, p2, next, exc) ==
  /\ pc \in {p1, p2}
  /\ ~cancelReq
  /\ \E d \in BOOLEAN :
       /\ IF a = "fetch"
          THEN /\ download_history' = History(a, Len(calls[a]), d)
               /\ UNCHANGED process_history
          ELSE /\ process_history' = History(a, Len(calls[a]), d)
               /\ UNCHANGED download_history
       /\ calls' = Finish(calls, a, IF d THEN "done" ELSE "notdone")
       /\ IF pc = p2 THEN Fail("timeout", obs)
          ELSE IF ~d THEN Fail(exc, obs)
          ELSE IF next = "success" THEN Succeed(obs)
          ELSE Goto(next, obs) /\ UNCHANGED <<scratch, fs, order>>
  /\ UNCHANGED <<uiVars, cancelReq, cache, handlerVars>>

\* An agent run under the try/except asyncio.TimeoutError wrapper returns.
AgentReturns(a, p1, p2, next, exc) ==
  /\ pc \in {p1, p2}
  /\ ~cancelReq
  /\ \E d \in BOOLEAN :
       /\ IF a = "fetch"
          THEN /\ download_history' = History(a, Len(calls[a]), d)
               /\ UNCHANGED process_history
          ELSE /\ process_history' = History(a, Len(calls[a]), d)
               /\ UNCHANGED download_history
       /\ calls' = Finish(calls, a, IF d THEN "done" ELSE "notdone")
       /\ IF ~d THEN Fail(exc, obs)
          ELSE IF next = "success" THEN Succeed(obs)
          ELSE Goto(next, obs) /\ UNCHANGED <<scratch, fs, order>>
  /\ UNCHANGED <<uiVars, cancelReq, cache, handlerVars>>

\* Variant: the retry sits in a loop that gives up after the third timeout.
AgentTimesOutRetriesTwice(a, p1, p2) ==
  /\ pc \in {p1, p2}
  /\ ~cancelReq
  /\ IF Len(calls[a]) < 3
     THEN /\ calls' = Invoke(Finish(calls, a, "timeout"), a)
          /\ Goto(p2, obs)
          /\ UNCHANGED <<scratch, fs, order>>
     ELSE /\ calls' = Finish(calls, a, "timeout")
          /\ Fail("timeout", obs)
  /\ UNCHANGED <<uiVars, cancelReq, download_history, process_history,
                 cache, handlerVars>>

\* The first wait_for times out: agent.run is invoked once more.  The second
\* wait_for times out: TimeoutError leaves the method.
AgentTimesOut(a, p1, p2) ==
  /\ pc \in {p1, p2}
  /\ ~cancelReq
  /\ IF pc = p1
     THEN /\ calls' = Invoke(Finish(calls, a, "timeout"), a)
          /\ Goto(p2, obs)
          /\ UNCHANGED <<scratch, fs, order>>
     ELSE /\ calls' = Finish(calls, a, "timeout")
          /\ Fail("timeout", obs)
  /\ UNCHANGED <<uiVars, cancelReq, download_history, process_history,
                 cache, handlerVars>>

\* agent.run raises something else than a timeout.
AgentRaises(a, p1, p2) ==
  /\ pc \in {p1, p2}
  /\ ~cancelReq
  /\ calls' = Finish(calls, a, "exc")
  /\ Fail("agent_error", obs)
  /\ UNCHANGED <<uiVars, cancelReq, download_history, process_history,
                 cache, handlerVars>>

fetch_agent_returns == AgentReturns("fetch", "fetch1", "fetch2", "sleep10", "fetch_not_done")
fetch_agent_times_out == AgentTimesOut("fetch", "fetch1", "fetch2")
fetch_agent_raises == AgentRaises("fetch", "fetch1", "fetch2")

(* ----------------------- validation poll loop -------------------------- *)
\* One iteration of "for attempt in range(5)" up to its first await: the
\* locator is called and the size of what it found is read.
PollLocate(i, o) ==
  LET found == find_latest_challenge_file(fs, order)
      fs1 == FsAfterLocate(fs)
      size == IF found = None THEN 0 ELSE fs1[found].size
  IN /\ attempt' = i
     /\ excel_file' = found
     /\ file_size' = IF found = None THEN file_size ELSE size
     /\ fs' = fs1
     /\ order' = Forget(order, LocatorPruned(fs))
     /\ UNCHANGED excel_data
     /\ Goto(IF found # None /\ size > 0 THEN "sleep2" ELSE "sleep5", o)

\* asyncio.sleep(10) is over: first poll attempt.
poll_first_attempt ==
  /\ pc = "sleep10"
  /\ ~cancelReq
  /\ PollLocate(0, obs)
  /\ UNCHANGED <<uiVars, cancelReq, download_history, process_history,
                 cache, calls, handlerVars>>

\* asyncio.sleep(5) is over and attempts remain: next poll attempt.
poll_next_attempt ==
  /\ pc = "sleep5"
  /\ ~cancelReq
  /\ attempt + 1 < PollAttempts
  /\ PollLocate(attempt + 1, obs)
  /\ UNCHANGED <<uiVars, cancelReq, download_history, process_history,
                 cache, calls, handlerVars>>

\* What follows the loop, up to the submission agent's first agent.run:
\* the "if not excel_file" test, process_excel_data (a second locator call and
\* read_excel_data), and the start of run_process_agent.
AfterLoop(ef) ==
  LET f2 == find_latest_challenge_file(fs, order)
      fs2 == FsAfterLocate(fs)
      data == read_excel_data(cache, fs2, f2)
  IN IF ef = None
     THEN [exc |-> "no_artifact", fs |-> fs, pruned |-> {}, cache |-> cache,
           data |-> excel_data, parsed |-> None]
     ELSE IF f2 = None
     THEN [exc |-> "no_file", fs |-> fs2, pruned |-> LocatorPruned(fs),
           cache |-> cache, data |-> excel_data, parsed |-> None]
     ELSE [exc |-> IF Falsy(data) THEN "no_data"
                   ELSE IF ~context THEN "ctx_not_init" ELSE "none",
           fs |-> fs2, pruned |-> LocatorPruned(fs),
           cache |-> CacheAfterRead(cache, fs2, f2),
           data |-> IF Falsy(data) THEN excel_data ELSE data,
           parsed |-> f2]

LeaveLoop(ef, o) ==
  LET r == AfterLoop(ef)
      o1 == [o EXCEPT !.parsed = r.parsed]
  IN /\ cache' = r.cache
     /\ IF r.exc # "none"
        THEN /\ Fail(r.exc, o1)
             /\ UNCHANGED calls
        ELSE /\ fs' = r.fs
             /\ order' = Forget(order, r.pruned)
             /\ calls' = Invoke(calls, "process")
             /\ excel_data' = r.data
             /\ UNCHANGED <<excel_file, file_size, attempt>>
             /\ Goto("process1", [o1 EXCEPT !.created = Append(@, "process")])

\* What the first two attempts of the loop showed: "unstable1" when the size
\* changed on the first attempt, "stable2" when it then was unchanged on the
\* second; any other comparison ends the record.
PollSeen(o, i, same) ==
  IF i = 0 /\ ~same THEN [o EXCEPT !.firstTwo = "unstable1"]
  ELSE IF i = 1 /\ same /\ o.firstTwo = "unstable1"
       THEN [o EXCEPT !.firstTwo = "stable2"]
  ELSE [o EXCEPT !.firstTwo = "none"]

\* Variant: the "break" is missing, the loop goes on after a stable size.
poll_stability_check_no_break ==
  /\ pc = "sleep2"
  /\ ~cancelReq
  /\ Goto("sleep5",
          IF file_size = fs[excel_file].size
          THEN PollSeen([obs EXCEPT !.stable = TRUE, !.accepted = excel_file],
                        attempt, TRUE)
          ELSE PollSeen(obs, attempt, FALSE))
  /\ UNCHANGED <<fs, order, cache, scratch, calls>>
  /\ UNCHANGED <<uiVars, cancelReq, download_history, process_history,
                 handlerVars>>

\* asyncio.sleep(2) is over: the size is read again and compared.
poll_stability_check ==
  /\ pc = "sleep2"
  /\ ~cancelReq
  /\ IF file_size = fs[excel_file].size
     THEN LeaveLoop(excel_file,
                    PollSeen([obs EXCEPT !.stable = TRUE, !.accepted = excel_file],
                             attempt, TRUE))
     ELSE /\ Goto("sleep5", PollSeen(obs, attempt, FALSE))
          /\ UNCHANGED <<fs, order, cache, scratch, calls>>
  /\ UNCHANGED <<uiVars, cancelReq, download_history, process_history,
                 handlerVars>>

\* asyncio.sleep(5) of the last attempt is over: the loop ends without break.
poll_exhausted ==
  /\ pc = "sleep5"
  /\ ~cancelReq
  /\ attempt + 1 = PollAttempts
  /\ LeaveLoop(excel_file, obs)
  /\ UNCHANGED <<uiVars, cancelReq, download_history, process_history,
                 handlerVars>>

(* ------------------------- run_process_agent --------------------------- *)
process_agent_returns ==
  AgentReturns("process", "process1", "process2", "success", "process_not_done")
process_agent_times_out == AgentTimesOut("process", "process1", "process2")
process_agent_raises == AgentRaises("process", "process1", "process2")

(* --------------------------- close_resources --------------------------- *)
\* close_resources as run by the task in its finally block.
\* context.close() returns (the context is forgotten, browser.close() is
\* called next) or raises (logged; the method ends there).
task_context_closed ==
  /\ pc = "fin_ctx"
  /\ ~cancelReq
  /\ \/ /\ context' = FALSE
        /\ pc' = IF browser THEN "fin_br" ELSE "terminated"
        /\ brCloseCalls' = IF browser THEN brCloseCalls + 1 ELSE brCloseCalls
     \/ /\ pc' = "terminated"
        /\ UNCHANGED <<context, brCloseCalls>>
  /\ UNCHANGED <<uiVars, browser, cancelReq, result, localVars, dirVars,
                 calls, handlerVars, ctxCloseCalls, cbMode, obs>>

\* browser.close() returns or raises.
task_browser_closed ==
  /\ pc = "fin_br"
  /\ ~cancelReq
  /\ pc' = "terminated"
  /\ \/ browser' = FALSE
     \/ browser' = browser
  /\ UNCHANGED <<uiVars, context, cancelReq, result, localVars, dirVars,
                 calls, handlerVars, ctxCloseCalls, brCloseCalls, cbMode, obs>>

(* ----------------------------- cancellation ---------------------------- *)
RunPositions == {"light", "fetch1", "fetch2", "sleep10", "sleep2", "sleep5",
                 "process1", "process2"}

AgentAt(p) ==
  IF p = "light" THEN "light"
  ELSE IF p \in {"fetch1", "fetch2"} THEN "fetch"
  ELSE IF p \in {"process1", "process2"} THEN "process" ELSE None

\* The cancelled task never ran: the coroutine body is not entered at all.
task_cancelled_unstarted ==
  /\ pc = "created"
  /\ cancelReq
  /\ pc' = "terminated"
  /\ result' = Cancelled
  /\ cancelReq' = FALSE
  /\ UNCHANGED <<uiVars, resVars, localVars, dirVars, calls, handlerVars,
                 cbMode, obs>>

\* Variant: close_resources is called at the end of the try and except
\* blocks instead of in a finally block, so a cancellation skips it.
task_cancelled_skips_close ==
  /\ pc \in RunPositions
  /\ cancelReq
  /\ cancelReq' = FALSE
  /\ calls' = IF AgentAt(pc) = None THEN calls ELSE Finish(calls, AgentAt(pc), "cancelled")
  /\ pc' = "terminated"
  /\ result' = Cancelled
  /\ UNCHANGED <<uiVars, resVars, localVars, dirVars, handlerVars, cbMode, obs>>

\* CancelledError is raised at the await the task is suspended in.  It is
\* not an Exception, so only the finally block runs.
task_cancelled ==
  /\ pc \in RunPositions
  /\ cancelReq
  /\ cancelReq' = FALSE
  /\ calls' = IF AgentAt(pc) = None THEN calls ELSE Finish(calls, AgentAt(pc), "cancelled")
  /\ Finally(Cancelled, obs)
  /\ UNCHANGED <<uiVars, download_history, process_history, cache,
                 handlerVars, cbMode>>

\* CancelledError is raised inside the finally block's close_resources, whose
\* "except Exception" does not catch it either.
task_cancelled_closing ==
  /\ pc \in {"fin_ctx", "fin_br"}
  /\ cancelReq
  /\ cancelReq' = FALSE
  /\ pc' = "terminated"
  /\ result' = Cancelled
  /\ UNCHANGED <<uiVars, resVars, localVars, dirVars, calls, handlerVars,
                 cbMode, obs>>

(* ---------------------- handle_stop / handle_clear --------------------- *)
\* The buttons are followed while run_rpa_challenge is under way, that is,
\* between its first interface update (which makes the stop button
\* interactive) and its last one (which makes it non-interactive again).
\* The handler h of kind k goes on to position pos of its close_resources
\* call; when that call has returned, handle_clear forgets the runner and the
\* handler returns its interface update (no await in between).
HandlerGoto(h, k, pos) ==
  /\ hpc' = [hpc EXCEPT ![h] = pos]
  /\ managerRunner' = IF pos = "done" /\ k = "clear" THEN FALSE ELSE managerRunner

\* close_resources as called by a handler, up to its first await.
HandlerBeginClose(h, k) ==
  /\ HandlerGoto(h, k, IF context THEN "ctx" ELSE IF browser THEN "br" ELSE "done")
  /\ ctxCloseCalls' = IF context THEN ctxCloseCalls + 1 ELSE ctxCloseCalls
  /\ brCloseCalls' = IF ~context /\ browser THEN brCloseCalls + 1 ELSE brCloseCalls

\* handle_stop: cancel the task, forget it, close the runner's resources.
handle_stop(h) ==
  /\ uiPc \in {"init", "await"}
  /\ hpc[h] = "idle"
  /\ \A g \in Handlers : g < h => hpc[g] # "idle"
  /\ managerRunner \/ managerTask
  /\ hkind' = [hkind EXCEPT ![h] = "stop"]
  /\ managerTask' = FALSE
  /\ cancelReq' = IF managerTask /\ pc # "terminated" THEN TRUE ELSE cancelReq
  /\ obs' = IF managerTask /\ pc # "terminated" THEN [obs EXCEPT !.stopAt = pc] ELSE obs
  /\ IF managerRunner
     THEN HandlerBeginClose(h, "stop")
     ELSE /\ HandlerGoto(h, "stop", "done")
          /\ UNCHANGED <<ctxCloseCalls, brCloseCalls>>
  /\ UNCHANGED <<uiPc, lastYield, browser, context, pc, result, localVars,
                 dirVars, calls, cbMode>>

\* handle_clear: close the runner's resources (the task is left alone).
handle_clear(h) ==
  /\ uiPc \in {"init", "await"}
  /\ hpc[h] = "idle"
  /\ \A g \in Handlers : g < h => hpc[g] # "idle"
  /\ managerRunner
  /\ hkind' = [hkind EXCEPT ![h] = "clear"]
  /\ HandlerBeginClose(h, "clear")
  /\ UNCHANGED <<uiPc, lastYield, managerTask, browser, context, pc, cancelReq, result,
                 localVars, dirVars, calls, cbMode, obs>>

\* The handler's context.close() returns or raises.
handler_context_closed(h) ==
  /\ hpc[h] = "ctx"
  /\ \/ /\ context' = FALSE
        /\ HandlerGoto(h, hkind[h], IF browser THEN "br" ELSE "done")
        /\ brCloseCalls' = IF browser THEN brCloseCalls + 1 ELSE brCloseCalls
     \/ /\ HandlerGoto(h, hkind[h], "done")
        /\ UNCHANGED <<context, brCloseCalls>>
  /\ UNCHANGED <<uiPc, lastYield, managerTask, browser, pc, cancelReq, result, localVars,
                 dirVars, calls, hkind, ctxCloseCalls, cbMode, obs>>

\* The handler's browser.close() returns or raises.
handler_browser_closed(h) ==
  /\ hpc[h] = "br"
  /\ HandlerGoto(h, hkind[h], "done")
  /\ \/ browser' = FALSE
     \/ browser' = browser
  /\ UNCHANGED <<uiPc, lastYield, managerTask, context, pc, cancelReq, result, localVars,
                 dirVars, calls, hkind, ctxCloseCalls, brCloseCalls, cbMode, obs>>

(* --------------------------- the browser ------------------------------- *)
\* The download the fetch agent triggered writes the file "dl": it appears,
\* or it grows.  What a partly written file parses as is not known.
\* After the poll loop the runner never looks at the directory again.
browser_writes_download ==
  /\ Len(calls["fetch"]) > 0
  /\ pc \in {"fetch1", "fetch2", "sleep10", "sleep2", "sleep5"}
  /\ \E f \in FileStates :
       /\ Exists(fs, "dl") => f.size > fs["dl"].size
       /\ fs' = [fs EXCEPT !["dl"] = f]
       /\ order' = Touch(order, "dl")
  /\ UNCHANGED <<uiVars, resVars, pc, cancelReq, result, localVars, cache,
                 calls, handlerVars, cbMode, obs>>

(* ------------------------------ Next ----------------------------------- *)
Next ==
  \/ ui_llm_not_configured
  \/ ui_initialize_browser
  \/ ui_create_task
  \/ ui_resume
  \/ run_download_agent
  \/ light_agent_returns
  \/ light_agent_faults
  \/ fetch_agent_returns
  \/ fetch_agent_times_out
  \/ fetch_agent_raises
  \/ poll_first_attempt
  \/ poll_next_attempt
  \/ poll_stability_check
  \/ poll_exhausted
  \/ process_agent_returns
  \/ process_agent_times_out
  \/ process_agent_raises
  \/ task_context_closed
  \/ task_browser_closed
  \/ task_cancelled_unstarted
  \/ task_cancelled
  \/ task_cancelled_closing
  \/ \E h \in Handlers : handle_stop(h)
  \/ \E h \in Handlers : handle_clear(h)
  \/ \E h \in Handlers : handler_context_closed(h)
  \/ \E h \in Handlers : handler_browser_closed(h)
  \/ browser_writes_download

Spec == Init /\ [][Next]_vars

TypeOK ==
  /\ uiPc \in {"start", "init", "await", "done"}
  /\ lastYield \in [run_button : BOOLEAN, stop_button : BOOLEAN,
                    status : {"running", "success", "error", "cancelled"}]
  /\ pc \in {"none", "created", "fin_ctx", "fin_br", "terminated"} \cup RunPositions
  /\ attempt \in 0..(PollAttempts - 1)
  /\ excel_file \in Names \cup {None}
  /\ \A n \in Names : fs[n] \in FileStates \cup {NoFile}
  /\ result.kind \in {"none", "record", "cancelled", "raised"}

(* ------------- the directory and the cache across runs ----------------- *)
\* read_excel_data and its lru_cache belong to the module, the downloads
\* directory to the file system: both outlive a run.  Here the runs of one
\* process follow one another, each reduced to what it does to the directory
\* and to the cache: the direct fetch, the browser's download, and
\* process_excel_data.  obs records the calls of read_excel_data:
\*   run       number of the run under way
\*   cachedBy  run whose call stored the cache entry (0: cache empty)
\*   last      the latest call: its path, its result, answered from the cache?
\*   prev      the call before it
\*   before    the path of the call before prev
\*   fetch     this run's direct fetch: "failed" (nothing written) or "wrote"
\*   downloaded  the browser saved a download during this run
\*   quiet     no write to last.path between the two calls
\*   dirty     last.path was written after the latest call
NoCall == [path |-> None, ret |-> NoData, hit |-> FALSE]
NoReads ==
  [run |-> 1, cachedBy |-> 0, last |-> NoCall, prev |-> NoCall,
   quiet |-> FALSE, dirty |-> FALSE, before |-> None, fetch |-> "none",
   downloaded |-> FALSE]

cacheFrame == <<uiVars, resVars, cancelReq, result, download_history,
                process_history, file_size, attempt, calls, handlerVars,
                cbMode>>

\* The process has just started its first run: empty directory, empty cache.
CacheInit ==
  /\ uiPc = "start"
  /\ managerRunner = FALSE
  /\ managerTask = FALSE
  /\ lastYield = FirstUpdate
  /\ browser = FALSE
  /\ context = FALSE
  /\ pc = "created"
  /\ cancelReq = FALSE
  /\ result = NoResult
  /\ download_history = NoHistory
  /\ process_history = NoHistory
  /\ excel_file = None
  /\ file_size = 0
  /\ attempt = 0
  /\ excel_data = NoData
  /\ fs = [n \in Names |-> NoFile]
  /\ order = <<>>
  /\ cache = NoCache
  /\ calls = [a \in Agents |-> <<>>]
  /\ hpc = [h \in Handlers |-> "idle"]
  /\ hkind = [h \in Handlers |-> "none"]
  /\ ctxCloseCalls = 0
  /\ brCloseCalls = 0
  /\ cbMode = "none"
  /\ obs = NoReads

\* obs after path n was written.
Written(o, n) == IF o.last.path = n THEN [o EXCEPT !.dirty = TRUE] ELSE o

\* run_download_agent's direct fetch: urlopen fails, or the body is written
\* over challenge_direct.xlsx.
cache_direct_fetch ==
  /\ pc = "created"
  /\ \E w \in DirectBodies \cup {NoFile} :
       IF w = NoFile
       THEN /\ obs' = [obs EXCEPT !.fetch = "failed"]
            /\ UNCHANGED <<fs, order>>
       ELSE /\ fs' = [fs EXCEPT ![DIRECT] = w]
            /\ order' = Touch(order, DIRECT)
            /\ obs' = [Written(obs, DIRECT) EXCEPT !.fetch = "wrote"]
  /\ pc' = "sleep10"
  /\ UNCHANGED <<excel_file, excel_data, cache, cacheFrame>>

\* The browser saves the download of the fetch agent: "dl" appears or grows.
cache_browser_writes ==
  /\ pc = "sleep10"
  /\ \E f \in FileStates :
       /\ Exists(fs, "dl") => f.size > fs["dl"].size
       /\ fs' = [fs EXCEPT !["dl"] = f]
       /\ order' = Touch(order, "dl")
  /\ obs' = [Written(obs, "dl") EXCEPT !.downloaded = TRUE]
  /\ UNCHANGED <<pc, excel_file, excel_data, cache, cacheFrame>>

\* obs after read_excel_data(n) returned ret, from the cache or not.
Called(o, n, ret, hit) ==
  [o EXCEPT !.before = o.prev.path,
            !.prev = o.last,
            !.last = [path |-> n, ret |-> ret, hit |-> hit],
            !.quiet = (o.last.path = n /\ ~o.dirty),
            !.dirty = FALSE,
            !.cachedBy = IF hit THEN @ ELSE o.run]

\* process_excel_data: the locator is called, and read_excel_data on the
\* path it returned; the run ends with that.
cache_process_excel_data ==
  /\ pc = "sleep10"
  /\ LET f2 == find_latest_challenge_file(fs, order)
         fs2 == FsAfterLocate(fs)
         data == read_excel_data(cache, fs2, f2)
     IN /\ fs' = fs2
        /\ order' = Forget(order, LocatorPruned(fs))
        /\ IF f2 = None
           THEN UNCHANGED <<excel_file, excel_data, cache, obs>>
           ELSE /\ excel_file' = f2
                /\ excel_data' = IF Falsy(data) THEN excel_data ELSE data
                /\ cache' = CacheAfterRead(cache, fs2, f2)
                /\ obs' = Called(obs, f2, data, CacheHit(cache, f2))
  /\ pc' = "terminated"
  /\ UNCHANGED cacheFrame

\* The next run of the same process begins (run_rpa_challenge builds a new
\* RPAChallengeRunner; the module, its cache and the directory stay).
cache_next_run ==
  /\ pc = "terminated"
  /\ obs.run < MaxRuns
  /\ pc' = "created"
  /\ excel_file' = None
  /\ excel_data' = NoData
  /\ obs' = [obs EXCEPT !.run = @ + 1, !.fetch = "none", !.downloaded = FALSE]
  /\ UNCHANGED <<fs, order, cache, cacheFrame>>

CacheNext ==
  \/ cache_direct_fetch
  \/ cache_browser_writes
  \/ cache_process_excel_data
  \/ cache_next_run

CacheSpec == CacheInit /\ [][CacheNext]_vars

Count(seq, x) == Cardinality({ i \in 1..Len(seq) : seq[i] = x })
Quiet == pc = "terminated" /\ \A h \in Handlers : hpc[h] \in {"idle", "done"}
TimedOutTwice(a) ==
  /\ Len(calls[a]) = 2
  /\ calls[a][1].out = "timeout"
  /\ calls[a][2].out = "timeout"

\* C1: a run of run_automation that was entered never terminates (by success,
\* by failure, or by cancellation at an agent invocation or a poll sleep)
\* without having executed close_resources; the task is never in the body of
\* close_resources without having entered it from the finally block.
C1_CloseOnEveryExit ==
  /\ (pc = "terminated" /\ obs.started) => obs.taskCloses = 1
  /\ pc \in {"fin_ctx", "fin_br"} => obs.taskCloses = 1
  /\ pc \in RunPositions => obs.taskCloses = 0

\* C1 witness: a run cancelled during a poll sleep has terminated after
\* running close_resources.
C1_Witness ==
  /\ pc = "terminated"
  /\ result.kind = "cancelled"
  /\ obs.stopAt \in {"sleep2", "sleep5", "sleep10"}
  /\ obs.taskCloses = 1

\* C2 (as claimed): when handle_stop ran while the task was suspended in the
\* submission agent's run, and everything has come to rest, context.close and
\* browser.close were each invoked exactly once.
C2_ClosedExactlyOnce ==
  (/\ Quiet
   /\ obs.stopAt \in {"process1", "process2"}
   /\ \A h \in Handlers : hkind[h] \in {"none", "stop"})
  => (ctxCloseCalls = 1 /\ brCloseCalls = 1)

\* C3: the submission agent is started only after the fetch history reported
\* done, the poll's locator call found an artifact, and the parse gave a
\* non-empty Record Set; no two agents run at the same time.
C3_PhaseOrder ==
  /\ pc \in {"process1", "process2"} =>
       /\ Running(calls) = {"process"}
       /\ download_history.done
       /\ excel_file # None
       /\ obs.parsed # None
       /\ excel_data # NoData /\ excel_data > 0
  /\ Len(calls["process"]) > 0 => (download_history.done /\ obs.parsed # None)
  /\ Cardinality(Running(calls)) <= 1
  /\ Running(calls) # {} => Running(calls) = {AgentAt(pc)}

\* C3 witness: the submission agent is running.
C3_Witness ==
  /\ pc = "process1"
  /\ Running(calls) = {"process"}
  /\ download_history.done

\* C4 (as claimed): the run goes on from the poll to parsing only if some
\* poll attempt saw a non-empty, parsable artifact whose size was unchanged
\* across the 2-second delay.
C4_ValidBeforeParse == obs.parsed # None => obs.stable

\* C5 (as claimed): after a direct fetch that passed validation the
\* agent-driven fetch agent is never constructed or run.
C5_NoFetchAgentAfterDirect ==
  obs.direct = "valid" => (Len(calls["fetch"]) = 0 /\ Count(obs.created, "fetch") = 0)

\* C6: after a failed direct fetch (network error, empty body, unparsable
\* content, zero rows) run_download_agent goes on to the agent-driven fetch,
\* which is set up exactly once, and the run fails, if it does, only after
\* that agent's first invocation has ended.
DirectFailures == {"neterr", "empty", "unparsable", "zerorows"}

C6_FallbackOnce ==
  obs.direct \in DirectFailures =>
    /\ Count(obs.created, "fetch") = 1
    /\ Count(obs.created, "light") = 0
    /\ Len(calls["fetch"]) >= 1
    /\ obs.exc # "none" => calls["fetch"][1].out # "running"

\* C6 witness: the direct fetch wrote an unparsable body and the fetch agent
\* is running.
C6_Witness ==
  /\ obs.direct = "unparsable"
  /\ pc = "fetch1"
  /\ Running(calls) = {"fetch"}

\* C7: when the first run of the fetch or of the submission agent timed out
\* and the second returned, the history kept is the second run's, and the
\* phase failed exactly if that history is not done (never with the timeout).
PhaseHistory(a) == IF a = "fetch" THEN download_history ELSE process_history
NotDoneExc(a) == IF a = "fetch" THEN "fetch_not_done" ELSE "process_not_done"

C7_RetryResultDecides ==
  \A a \in {"fetch", "process"} :
    (/\ Len(calls[a]) = 2
     /\ calls[a][1].out = "timeout"
     /\ calls[a][2].out \in {"done", "notdone"})
    => /\ PhaseHistory(a) = History(a, 2, calls[a][2].out = "done")
       /\ calls[a][2].out = "notdone" => obs.exc = NotDoneExc(a)
       /\ calls[a][2].out = "done" =>
            /\ obs.exc # NotDoneExc(a)
            /\ obs.exc = "timeout" => (a = "fetch" /\ TimedOutTwice("process"))

\* C7 witness: the submission agent timed out once, then returned done, and
\* the run returned a success record.
C7_Witness ==
  /\ Len(calls["process"]) = 2
  /\ calls["process"][1].out = "timeout"
  /\ calls["process"][2].out = "done"
  /\ result = Record(TRUE, Absent)

\* C8 (as claimed): when an agent timed out twice in a row the run returns a
\* failure record whose error detail identifies the timeout (here: is at
\* least not empty), no later phase starts, and close_resources runs.
C8_TimeoutReported ==
  \A a \in {"fetch", "process"} :
    (TimedOutTwice(a) /\ result.kind = "record")
    => /\ ~result.success
       /\ result.error \notin {Absent, ""}
       /\ (a = "fetch" => Len(calls["process"]) = 0 /\ obs.parsed = None)
       /\ obs.taskCloses = 1

\* C9 (as claimed): every agent is invoked at most twice, a second time only
\* after a timeout of the first and with the same budgets, and a first
\* invocation that timed out is always followed by a second one.
C9_RetryOncePerAgent ==
  \A a \in Agents :
    /\ Len(calls[a]) <= 2
    /\ Len(calls[a]) = 2 =>
         /\ calls[a][1].out = "timeout"
         /\ calls[a][2].steps = calls[a][1].steps
         /\ calls[a][2].budget = calls[a][1].budget
    /\ (Len(calls[a]) >= 1 /\ calls[a][1].out = "timeout") => Len(calls[a]) = 2

\* C10: a phase failure raised inside run_automation reaches the caller as a
\* Result Record with success=false and an error field holding str(e); the
\* only other thing the caller can see after such a failure is a cancellation.
PhaseFailures == {"ctx_not_init", "fetch_not_done", "no_artifact", "no_file",
                  "no_data", "process_not_done", "timeout"}

C11_AlwaysRecord ==
  (pc = "terminated" /\ obs.started /\ obs.stopAt \notin {"fin_ctx", "fin_br"}) =>
    /\ result.kind = "record"
    /\ obs.stopAt \in {"light", "fetch1", "fetch2", "process1", "process2"} =>
         (~result.success /\ result.error \notin {Absent, ""})

\* The poll loop ran out of attempts: no attempt passed the stability check
\* and the code after the loop has been reached.
LoopExhausted ==
  /\ ~obs.stable
  /\ \/ obs.exc \in {"no_artifact", "no_file", "no_data"}
     \/ Len(calls["process"]) > 0

\* C12 (as claimed): when none of the 5 poll attempts saw a located and
\* size-stable candidate, the run fails with the artifact-not-found error,
\* the submission agent is never invoked, the summary is written, and the
\* record returned has success=false with that error.
C12_PollExhaustion ==
  LoopExhausted =>
    /\ obs.exc = "no_artifact"
    /\ Len(calls["process"]) = 0
    /\ obs.summaryWrites = 1
    /\ (pc = "terminated" /\ result.kind # "cancelled") =>
         result = Record(FALSE, StrOf("no_artifact"))

\* C13: when the direct fetch failed, the fetch agent reported done, the
\* artifact's size changed across the delay of poll attempt 1 and was
\* unchanged on attempt 2, the loop is left at attempt 2 (the task is never
\* again at a sleep of the loop, so the loop makes no third locator call) and
\* process_excel_data has located and parsed a file.
C13_StopsAtSecondAttempt ==
  (/\ obs.firstTwo = "stable2"
   /\ obs.direct \in DirectFailures
   /\ download_history.done)
  => /\ pc \notin {"sleep10", "sleep2", "sleep5"}
     /\ obs.stable
     /\ obs.accepted # None
     /\ obs.parsed # None
     /\ pc \in {"process1", "process2"} => attempt = 1

\* C13 witness: scenario B has led to the submission agent's first run.
C13_Witness ==
  /\ obs.firstTwo = "stable2"
  /\ obs.direct = "neterr"
  /\ download_history.done
  /\ attempt = 1
  /\ pc = "process1"

\* C14 (as claimed): starting from an empty downloads directory, when the
\* direct fetch wrote a valid spreadsheet of N >= 1 rows and the run has come
\* to the submission agent, excel_data holds exactly N records and the
\* agent-driven fetch agent was never constructed or invoked.
C14_DirectScenario ==
  (obs.direct = "valid" /\ pc \in {"process1", "process2"}) =>
    /\ excel_data = fs[DIRECT].rows
    /\ excel_data >= 1
    /\ Len(calls["fetch"]) = 0
    /\ Count(obs.created, "fetch") = 0

\* The files of directory f that the locator considers (both names match
\* the candidate pattern), and those of them that are valid spreadsheets.
Candidates(f) == { n \in Names : Exists(f, n) }
ValidCandidates(f) == { n \in Candidates(f) : f[n].size > 0 /\ f[n].ok }

\* The step in which the first poll attempt calls find_latest_challenge_file.
FirstLocatorCall == pc = "sleep10" /\ pc' \in {"sleep2", "sleep5"}

\* C15 (as claimed): when every candidate file is corrupt (zero-byte files
\* included), a call of find_latest_challenge_file returns None and leaves no
\* candidate file in the directory.
C15_CorruptPruned ==
  [][(/\ FirstLocatorCall
      /\ Candidates(fs) # {}
      /\ ValidCandidates(fs) = {})
     => (excel_file' = None /\ Candidates(fs') = {})]_vars

\* C16 (as claimed): when there are valid candidates, a call of
\* find_latest_challenge_file returns a valid candidate than which none was
\* created later.
C16_LatestCreated ==
  [][(FirstLocatorCall /\ ValidCandidates(fs) # {})
     => /\ excel_file' \in ValidCandidates(fs)
        /\ \A m \in ValidCandidates(fs) :
             CTime(order, m) <= CTime(order, excel_file')]_vars

\* C17 (as claimed, in the case the claim names): when the file at a path was
\* written between the call of read_excel_data that an earlier run made and
\* the call that this run has just made, this run is not handed the earlier
\* run's cache entry: what it gets is what the file holds now.
C17_CachePrivate ==
  (/\ pc = "terminated"
   /\ obs.last.hit
   /\ obs.cachedBy # obs.run
   /\ ~obs.quiet)
  => obs.last.ret = ParseData(fs, obs.last.path)

\* C18: two calls of read_excel_data in a row with the same path and no write
\* to that path in between: the second call is answered from the cache (the
\* file is not read again) with the result of the first.
C18_SecondCallHits ==
  (/\ obs.prev.path # None
   /\ obs.prev.path = obs.last.path
   /\ obs.quiet)
  => (obs.last.hit /\ obs.last.ret = obs.prev.ret)

\* C18 witness: the direct file parsed by one run is parsed again, untouched,
\* by the next run, from the cache.
C18_Witness ==
  /\ obs.run = 2
  /\ obs.prev.path = DIRECT
  /\ obs.last.path = DIRECT
  /\ obs.quiet
  /\ obs.last.hit
  /\ obs.last.ret = 1

\* The task's own close_resources call (in its finally block) has returned.
TaskCloseCompleted ==
  /\ pc = "terminated"
  /\ obs.taskCloses = 1
  /\ obs.stopAt \notin {"fin_ctx", "fin_br"}

\* C19 (as claimed): a call of close_resources that follows a completed call
\* (here: a button handler's call after the one of the finally block)
\* invokes neither context.close nor browser.close.
C19_SecondCloseIsNoOp ==
  [][\A h \in Handlers :
       (/\ TaskCloseCompleted
        /\ managerRunner
        /\ hpc[h] = "idle"
        /\ hpc'[h] # "idle")
       => (ctxCloseCalls' = ctxCloseCalls /\ brCloseCalls' = brCloseCalls)]_vars

\* C20 (as claimed): once close_resources has released the context in the
\* middle of a run (the context only exists from the creation of the task
\* on), the run starts no agent invocation any more: whenever an agent's run
\* is started, the runner's context is set.
C20_CloseCancelsRun ==
  [][\A a \in Agents :
       Len(calls'[a]) > Len(calls[a]) => context]_vars

(* ------------------------ Initialization failure ------------------------ *)
\* run_rpa_challenge has ended with a runner but without ever creating the
\* task: this only happens when initialize_browser returned False.
InitializationFailed ==
  /\ uiPc = "done"
  /\ pc = "none"
  /\ managerRunner

\* C21 (as claimed): when browser initialization fails, no agent has been
\* invoked and every browser resource acquired up to the failure (the
\* browser, the context) is released by the time run_rpa_challenge reports
\* the failure.
C21_InitFailureReleases ==
  InitializationFailed =>
    /\ \A a \in Agents : calls[a] = <<>>
    /\ ~browser
    /\ ~context

(* ------------------------- Phase error reports ------------------------- *)
\* C22: an agent history that is not done ends the run with a record whose
\* success is false and whose error is the phase's message followed by the
\* history's errors; after a fetch history that is not done the run neither
\* polls, nor parses, nor invokes the submission agent.
C22_NotDoneFails ==
  /\ (download_history # NoHistory /\ ~download_history.done) =>
       /\ obs.exc = "fetch_not_done"
       /\ pc \in {"fin_ctx", "fin_br", "terminated"}
       /\ calls["process"] = <<>>
       /\ obs.accepted = None
       /\ obs.parsed = None
       /\ ~obs.stable
       /\ obs.firstTwo = "none"
       /\ result.kind = "record" =>
            result = Record(FALSE, StrOf("fetch_not_done"))
  /\ (process_history # NoHistory /\ ~process_history.done) =>
       /\ obs.exc = "process_not_done"
       /\ pc \in {"fin_ctx", "fin_br", "terminated"}
       /\ result.kind = "record" =>
            result = Record(FALSE, StrOf("process_not_done"))

\* Both cases happen: the fetch agent's history is not done, the submission
\* agent's history is not done; each run has returned its record.
C22_Witness ==
  /\ pc = "terminated"
  /\ result = Record(FALSE, StrOf("process_not_done"))
  /\ download_history.done
  /\ ~process_history.done
  /\ process_history.agent = "process"

(* ------------------- run_automation with callbacks --------------------- *)
\* run_automation(llm, on_step_callback, on_done_callback) called with both
\* callbacks by a caller that otherwise does what run_rpa_challenge does and
\* is left to run (no button is pressed).  on_step_callback is not referenced
\* in run_automation's body: no action changes obs.stepCalls.
CallbackModes == {"ok", "raises", "raises_on_success"}

CallbackInit == \E cb \in CallbackModes : InitWith(cb)

CallbackNext ==
  \/ ui_initialize_browser
  \/ ui_create_task
  \/ ui_resume
  \/ run_download_agent
  \/ light_agent_returns
  \/ light_agent_faults
  \/ fetch_agent_returns
  \/ fetch_agent_times_out
  \/ fetch_agent_raises
  \/ poll_first_attempt
  \/ poll_next_attempt
  \/ poll_stability_check
  \/ poll_exhausted
  \/ process_agent_returns
  \/ process_agent_times_out
  \/ process_agent_raises
  \/ task_context_closed
  \/ task_browser_closed
  \/ browser_writes_download

CallbackSpec == CallbackInit /\ [][CallbackNext]_vars

\* C23 (as claimed): whenever run_automation returns a record, the summary
\* file has been written exactly once during the run, and it has not been
\* written while the run is still in its phases.
C23_SummaryWrittenOnce ==
  /\ pc \in RunPositions => obs.summaryWrites = 0
  /\ result.kind = "record" => obs.summaryWrites = 1

\* C24 (as claimed): with both callbacks given, the step callback has been
\* invoked once the fetch phase is over (its history is done), and the done
\* callback has been invoked when the run has ended.
C24_CallbacksInvoked ==
  /\ download_history.done => obs.stepCalls >= 1
  /\ pc = "terminated" => obs.cbCalls >= 1

(* --------------------------- Cache capacity ----------------------------- *)
\* C25: the cache holds a single entry, the one of the latest call's path:
\* a call that follows a call with another path is never answered from the
\* cache, whatever was parsed before.
C25_CapacityOne ==
  /\ cache.path # None => cache.path = obs.last.path
  /\ (obs.prev.path # None /\ obs.prev.path # obs.last.path) => ~obs.last.hit

\* read_excel_data(p1), read_excel_data(p2), read_excel_data(p1) with
\* p1 # p2: the third call read the file again.
C25_Witness ==
  /\ obs.before # None
  /\ obs.before = obs.last.path
  /\ obs.prev.path # obs.last.path
  /\ ~obs.last.hit
  /\ cache.path = obs.last.path

(* --------------------- A file left by an earlier run -------------------- *)
\* C28 (as claimed): when this run's direct fetch wrote nothing and the
\* browser then saved a valid download, process_excel_data selects and
\* parses that download.
C28_ThisRunsArtifact ==
  (/\ pc = "terminated"
   /\ obs.fetch = "failed"
   /\ obs.downloaded
   /\ "dl" \in ValidCandidates(fs))
  => excel_file = "dl"

(* ----------------------- Faults while closing --------------------------- *)
\* C29 (as claimed): when the close_resources call of the finally block has
\* returned after calling context.close, the context is released and
\* browser.close has been called as well, a fault of context.close included.
C29_FaultReleasesBoth ==
  (TaskCloseCompleted /\ ctxCloseCalls >= 1)
  => (~context /\ brCloseCalls >= 1)

(* --------------------------- The result record -------------------------- *)
\* C30: a record with success true is only returned when the fetch history
\* and the submission history are done and a non-empty Record Set was parsed
\* (read_excel_data's latest result, kept in the cache, has rows), and it has
\* no error field; a record with success false has an error field.
C30_SuccessConditions ==
  result.kind = "record" =>
    /\ result.success =>
         /\ download_history.done
         /\ process_history.done
         /\ obs.parsed # None
         /\ cache.path = obs.parsed
         /\ cache.data >= 1
         /\ result.error = Absent
    /\ ~result.success => result.error # Absent

\* A success record was returned after the submission agent's first run.
C30_Witness ==
  /\ result = Record(TRUE, Absent)
  /\ pc = "terminated"
  /\ process_history = History("process", 1, TRUE)
  /\ cache.data >= 1

(* ------------------------------ Budgets --------------------------------- *)
\* C26 (as claimed): while the submission agent runs, its step budget and its
\* time budget exceed the fetch agent's, the step budget is the number of
\* records times a constant factor (one factor that fits the Record Set
\* parsed and also a Record Set with one more record), and a retry has the
\* budgets of the first invocation.
C26_Budgets ==
  pc \in {"process1", "process2"} =>
    LET c == calls["process"]
        now == c[Len(c)]
    IN /\ now.steps > StepBudget("fetch")
       /\ now.budget > TimeBudget("fetch")
       /\ now.steps = c[1].steps
       /\ now.budget = c[1].budget
       /\ \E k \in 1..now.steps :
            /\ now.steps = k * excel_data
            /\ StepBudget("process") = k * (excel_data + 1)

(* ------------------------- A second download --------------------------- *)
\* The run left to itself (no button is pressed) in a browser that may save
\* the workbook a second time: the fetch agent, within its step budget, may
\* click "Download Excel" again, and the browser then saves a new file next
\* to the first one.
browser_writes_second_download ==
  /\ Len(calls["fetch"]) > 0
  /\ pc \in {"fetch1", "fetch2", "sleep10", "sleep2", "sleep5"}
  /\ Exists(fs, "dl")
  /\ \E f \in FileStates :
       /\ Exists(fs, "dl2") => f.size > fs["dl2"].size
       /\ fs' = [fs EXCEPT !["dl2"] = f]
       /\ order' = Touch(order, "dl2")
  /\ UNCHANGED <<uiVars, resVars, pc, cancelReq, result, localVars, cache,
                 calls, handlerVars, cbMode, obs>>

DownloadsNext ==
  \/ ui_initialize_browser
  \/ ui_create_task
  \/ ui_resume
  \/ run_download_agent
  \/ light_agent_returns
  \/ light_agent_faults
  \/ fetch_agent_returns
  \/ fetch_agent_times_out
  \/ fetch_agent_raises
  \/ poll_first_attempt
  \/ poll_next_attempt
  \/ poll_stability_check
  \/ poll_exhausted
  \/ process_agent_returns
  \/ process_agent_times_out
  \/ process_agent_raises
  \/ task_context_closed
  \/ task_browser_closed
  \/ browser_writes_download
  \/ browser_writes_second_download

DownloadsSpec == Init /\ [][DownloadsNext]_vars

\* C27 (as claimed): when the poll accepted a path (its size was unchanged
\* over the 2-second delay) and the submission agent was handed a Record
\* Set, that Record Set was parsed from the path accepted.
C27_ParsesAccepted ==
  (obs.accepted # None /\ calls["process"] # <<>>) => obs.parsed = obs.accepted

(* --------------------------- The done callback -------------------------- *)
\* C31 (as claimed): the done callback is invoked at most once in a run, and
\* a run whose fetch and submission histories are both done (a completed
\* run) returns a record with success true whatever the callback does.
C31_DoneCallbackOnce ==
  /\ obs.cbCalls <= 1
  /\ (pc = "terminated" /\ download_history.done /\ process_history.done) =>
       (result.kind = "record" /\ result.success)

(* ------------------------------ Termination ----------------------------- *)
\* The steps of the task up to the finally block.  The event loop resumes
\* the task whenever what it awaits is over: a sleep ends, an agent.run
\* returns, raises or exceeds the time budget of its wait_for, whose
\* timeout cancels it.  Nothing is assumed about the close calls of
\* close_resources.
TaskStep ==
  \/ run_download_agent
  \/ light_agent_returns
  \/ light_agent_faults
  \/ fetch_agent_returns
  \/ fetch_agent_times_out
  \/ fetch_agent_raises
  \/ poll_first_attempt
  \/ poll_next_attempt
  \/ poll_stability_check
  \/ poll_exhausted
  \/ process_agent_returns
  \/ process_agent_times_out
  \/ process_agent_raises

\* The run left to itself (CallbackNext: no button is pressed, so every
\* agent invocation completes or hits its time budget), as run_rpa_challenge
\* starts it.
LiveSpec == Init /\ [][CallbackNext]_vars /\ WF_vars(TaskStep)

\* C32: a run makes at most one invocation of the lightweight agent, two of
\* the fetch agent and two of the submission agent, at most 5 poll attempts,
\* and a task that was created always comes to call close_resources in its
\* finally block.
C32_Terminates ==
  /\ [](/\ Len(calls["light"]) <= 1
        /\ Len(calls["fetch"]) <= 2
        /\ Len(calls["process"]) <= 2
        /\ attempt < PollAttempts)
  /\ (pc = "created") ~> (obs.taskCloses = 1)

\* All five invocations were made in one run, which has ended.
C32_Witness ==
  /\ Len(calls["light"]) = 1
  /\ Len(calls["fetch"]) = 2
  /\ Len(calls["process"]) = 2
  /\ obs.taskCloses = 1
  /\ pc = "terminated"

(* ------------------------- The last interface update -------------------- *)
\* C33: when run_rpa_challenge has finished, by whatever way, the latest
\* update it yielded makes the run button interactive and the stop button
\* non-interactive; and when the task it awaited ended cancelled, the status
\* of that update is the cancellation status.
C33_ButtonsRestored ==
  uiPc = "done" =>
    /\ lastYield.run_button
    /\ ~lastYield.stop_button
    /\ (pc = "terminated" /\ result.kind = "cancelled") =>
         lastYield.status = "cancelled"

\* Stop was pressed during the submission agent's run and run_rpa_challenge
\* has finished with the cancellation status.
C33_Witness ==
  /\ uiPc = "done"
  /\ result.kind = "cancelled"
  /\ obs.stopAt \in {"process1", "process2"}
  /\ lastYield = Update("cancelled")

====
